---------------------------- MODULE Spec2Model ----------------------------
(***************************************************************************)
(* Model of the vortex-proxy request-forwarding core:                      *)
(*   - the Peak-EWMA tracker        (vortex-core/src/load_balancer/ewma.rs)*)
(*   - the Backend entity           (vortex-core/src/domain/backend.rs)    *)
(*   - the routing table            (vortex-core/src/domain/routing.rs)    *)
(*   - the selector                 (.../load_balancer/selector.rs)        *)
(*   - the connection pool          (vortex-proxy/src/connection_pool)     *)
(*   - the health checker           (vortex-proxy/src/health_check)        *)
(*   - forward_request              (vortex-proxy/src/server.rs)           *)
(*                                                                         *)
(* f64 values are kept as fixed-point integers in units of 1/Scale ms.     *)
(* With decay_alpha = 1/2 and at most ObsDepth decays on one tracker every *)
(* value the program computes is a dyadic rational that both f64 and the   *)
(* fixed-point form represent exactly.  NaN is a separate value.           *)
(***************************************************************************)
EXTENDS Integers, Sequences, FiniteSets, TLC

(***************************************************************************)
(* Bounds of the model.                                                    *)
(***************************************************************************)
\* Backend objects that exist on the heap (Arc<Backend>)
NumObjs == 3
\* distinct upstream socket addresses
NumAddrs == 2
\* largest in-flight gauge drawn for the selector's inputs
MaxActive == 1
\* guards issued in the gauge specification
MaxGuards == 4
\* forwarding tasks / guard-holding tasks
NumTasks == 2
\* concurrent observe_latency callers
NumObservers == 3
\* spurious failures of compare_exchange_weak, all calls together
MaxSpurious == 1
\* update_backends calls
MaxUpdates == 2
\* tasks holding routing-table snapshots
NumReaders == 2
\* upstream connections (SendRequest handles) ever created
NumSenders == 2
\* health-checker ticks
MaxTicks == 2
\* requests started by the forwarding tasks, all together
MaxRequests == 2
\* accepted pushes (all addresses) in the pool specification
MaxPushes == 2
\* observe_latency calls on the stand-alone tracker
MaxObs == 2
\* forwarding tasks that run while update_backends is called
NumReloadTasks == 1

(***************************************************************************)
(* Program constants.                                                      *)
(***************************************************************************)
\* Backend::new: PeakEwma::new(50.0, 0.5)
InitialLatencyMs == 50
\* decay_alpha = AlphaNum / AlphaDen = 0.5
AlphaNum == 1
AlphaDen == 2
\* active_requests is an AtomicU64; the model keeps its wrap-around
\* (0 - 1 = largest value) in a ring of 2^GaugeBits values, because 2^64
\* exceeds the integers of the model checker.
GaugeBits == 16
\* significand of an f64, narrowed from 53 bits: the stand-alone tracker
\* rounds every arithmetic result to MantissaBits significant bits
MantissaBits == 8
\* a decay_alpha is a multiple of 2^-AlphaBits
AlphaBits == 4

\* prober.rs: time::timeout(Duration::from_millis(1500), connect)
ProbeTimeoutMs == 1500
\* main.rs: spawn_health_checker(routing_table.clone(), 5000)
MainIntervalMs == 5000

None == 0

Obj == 1..NumObjs
Addr == 1..NumAddrs
Tasks == 1..NumTasks
Observers == 1..NumObservers
Readers == 1..NumReaders
SenderId == 1..NumSenders

RECURSIVE Pow(_, _)
Pow(b, n) == IF n = 0 THEN 1 ELSE b * Pow(b, n - 1)

Max2(a, b) == IF a > b THEN a ELSE b

RECURSIVE SumOver(_, _)
SumOver(f, S) ==
    IF S = {} THEN 0
    ELSE LET x == CHOOSE y \in S : TRUE IN f[x] + SumOver(f, S \ {x})

\* number of decays one tracker can undergo in any specification
ObsDepth == Max2(NumObservers, MaxRequests)
\* fixed-point unit: 1 ms = Scale units
Scale == Pow(AlphaDen, ObsDepth)
GaugeMod == Pow(2, GaugeBits)
AlphaUnit == Pow(2, AlphaBits)

\* Backend.id (BackendId) and Backend.addr of each heap object; immutable
BackendIdOf(o) == o
AddrOf(o) == ((o - 1) % NumAddrs) + 1

(***************************************************************************)
(* f64 arithmetic on the fixed-point form.                                 *)
(***************************************************************************)
NaN == -999999999
IsNaN(x) == x = NaN
Ms(n) == n * Scale

\* x > y on f64: false when either side is NaN
FGt(x, y) == ~IsNaN(x) /\ ~IsNaN(y) /\ x > y

\* f64::partial_cmp
partial_cmp(x, y) ==
    IF IsNaN(x) \/ IsNaN(y) THEN "None"
    ELSE IF x < y THEN "Less"
    ELSE IF x > y THEN "Greater"
    ELSE "Equal"

\* Option<Ordering>::unwrap_or(Ordering::Equal)
unwrap_or_Equal(c) == IF c = "None" THEN "Equal" ELSE c

VARIABLES
    \* ---- Backend objects (heap) ----
    healthy,          \* Backend.healthy : AtomicBool
    ewma,             \* PeakEwma.ewma : AtomicU64 holding the f64 bits
    active_requests,  \* PeakEwma.active_requests : AtomicU64
    \* ---- RoutingTable ----
    vecs,             \* heap of Arc<Vec<SharedBackend>>: VecId -> Seq(Obj)
    backends,         \* RoutingTable.backends : ArcSwap, the current VecId
    installed,        \* history: the sequences passed to new / update_backends
    reader_snap,      \* reader -> VecId it holds (None: no snapshot)
    reader_seen,      \* history: contents the reader saw when it took it
    \* ---- caller of select_best_backend ----
    sel_out,          \* "none" before the call, then [some, obj]
    \* ---- a stand-alone PeakEwma (PeakEwma::new(initial, alpha)) ----
    tracker,          \* [ewma, decay_alpha, active_requests]
    trk_hist,         \* history: initial average, largest of it and the
                      \*   samples, calls, last sample, average before the
                      \*   last call, guards alive
    \* ---- guards on one tracker ----
    guards,           \* Seq of [holder, live]: ActiveRequestGuard values
    \* ---- observe_latency callers ----
    obs_pc, obs_rtt, current_bits, obs_applied,
    obs_spurious,     \* spurious failures of compare_exchange_weak so far
    obs_retries,      \* history: a writer made the call's CAS return Err
    \* ---- ConnectionPool and upstream connections ----
    idle_connections, \* DashMap: Addr -> queue (Seq) of SenderId
    sender_closed,    \* SendRequest::is_closed() of each connection
    sender_addr,      \* address the connection was opened to (None: not opened)
    pool_held,        \* pool client -> sender it owns (None: nothing)
    pool_last,        \* history: the last step on the pool (call, caller,
                      \*   address, sender passed or returned, senders taken)
    push_count,       \* history: pushes of a non-closed sender, per address
    removed_count,    \* history: senders try_pop took off a queue, per address
    \* ---- forward_request tasks ----
    pc,               \* task -> where it is in forward_request
    ewma_node,        \* task -> the backend selected (None: none)
    active_guard,     \* task -> backend its _active_guard counts on
    sender,           \* task -> the SendRequest it owns
    from_pool,        \* task -> its sender came from try_pop
    requests,         \* task -> requests it has started
    req_log,          \* history: what the task's current request has done
    \* ---- environment and health checker ----
    up,               \* Addr -> the endpoint accepts TCP connections
    check_interval,   \* period of the checker, ms (0: none spawned)
    hc_pc, hc_snap, hc_idx, hc_ticks,
    last_probe,       \* history: Obj -> result of its latest probe
    set_healthy_calls \* history: number of set_healthy calls

backendVars == <<healthy, ewma, active_requests>>
tableVars == <<vecs, backends, installed, reader_snap, reader_seen>>
selVars == <<sel_out>>
trkVars == <<tracker, trk_hist>>
guardVars == <<guards>>
obsVars == <<obs_pc, obs_rtt, current_bits, obs_spurious, obs_retries,
            obs_applied>>
poolVars == <<idle_connections, sender_closed, sender_addr>>
poolHarnessVars == <<pool_held, pool_last, push_count, removed_count>>
fwdVars == <<pc, ewma_node, active_guard, sender, from_pool, requests, req_log>>
hcVars == <<up, check_interval, hc_pc, hc_snap, hc_idx, hc_ticks, last_probe,
           set_healthy_calls>>

vars == <<backendVars, tableVars, selVars, trkVars, guardVars, obsVars, poolVars,
          poolHarnessVars, fwdVars, hcVars>>


(***************************************************************************)
(* PeakEwma (ewma.rs)                                                      *)
(***************************************************************************)
\* AtomicU64::fetch_add(1) / fetch_sub(1): wrapping
fetch_add(v) == (v + 1) % GaugeMod
fetch_sub(v) == (v - 1) % GaugeMod

\* PeakEwma::get_ewma
get_ewma(b) == ewma[b]

\* the body of the loop of observe_latency: next_ewma from current_ewma
next_ewma(current_ewma, rtt_ms) ==
    IF FGt(rtt_ms, current_ewma) THEN rtt_ms
    ELSE IF IsNaN(rtt_ms) \/ IsNaN(current_ewma) THEN NaN
    ELSE (rtt_ms * (AlphaDen - AlphaNum) + current_ewma * AlphaNum) \div AlphaDen

\* PeakEwma::calculate_score: (ewma + 1.0) * (active + 1.0)
calculate_score(b) ==
    IF IsNaN(get_ewma(b)) THEN NaN
    ELSE (get_ewma(b) + Ms(1)) * (active_requests[b] + 1)

(***************************************************************************)
(* Backend (backend.rs)                                                    *)
(***************************************************************************)
is_healthy(b) == healthy[b]
set_healthy(h, b, v) == [h EXCEPT ![b] = v]

\* Backend::new for every object: healthy, 50 ms, no request in flight
BackendNewDown ==
    /\ healthy = [o \in Obj |-> FALSE]
    /\ ewma = [o \in Obj |-> Ms(InitialLatencyMs)]
    /\ active_requests = [o \in Obj |-> 0]
BackendNew ==
    /\ healthy = [o \in Obj |-> TRUE]
    /\ ewma = [o \in Obj |-> Ms(InitialLatencyMs)]
    /\ active_requests = [o \in Obj |-> 0]

(***************************************************************************)
(* RoutingTable (routing.rs)                                               *)
(***************************************************************************)
\* RoutingTable::snapshot: load_full clones the Arc, i.e. yields the pointer
snapshot == backends
\* the Vec an Arc points to
Deref(v) == vecs[v]

Range(q) == {q[i] : i \in DOMAIN q}

\* the sequences a caller may install: distinct backends, any order
Injective(s) == \A i, j \in DOMAIN s : s[i] = s[j] => i = j
TableChoices ==
    {s \in UNION {[1..n -> Obj] : n \in 0..NumObjs} : Injective(s)}

\* main.rs: RoutingTable::new(vec![Backend 1, Backend 2])
StartupBackends == <<1, 2>>

(***************************************************************************)
(* select_best_backend (selector.rs)                                       *)
(***************************************************************************)
\* the closure given to min_by
compare_score(a, b) ==
    unwrap_or_Equal(partial_cmp(calculate_score(a), calculate_score(b)))

\* core::cmp::min_by: the first argument unless it compares Greater
cmp_min_by(v1, v2) == IF compare_score(v1, v2) = "Greater" THEN v2 ELSE v1

\* Iterator::min_by = reduce(cmp::min_by) over the remaining elements
RECURSIVE reduce_min(_, _)
reduce_min(acc, rest) ==
    IF rest = <<>> THEN acc
    ELSE reduce_min(cmp_min_by(acc, Head(rest)), Tail(rest))

\* .filter(|b| b.is_healthy())
filter_no_health(s) == s
filter_healthy(s) == SelectSeq(s, is_healthy)

select_best_backend ==
    LET filtered == filter_healthy(Deref(snapshot))
    IN  IF filtered = <<>> THEN None
        ELSE reduce_min(Head(filtered), Tail(filtered))

(***************************************************************************)
(* Quiescent values of each part of the state, shared by the               *)
(* specifications below.                                                   *)
(***************************************************************************)
\* history of one request: its outcome, the senders its try_pop took off the
\* queue, the senders it pushed, its observe_latency calls, its guard drops,
\* the pooled senders it found not ready, the connections it opened, the
\* Vec its select_best_backend loaded (None: no selection, or the request
\* has ended)
NewLog(r) == [result |-> r, popped |-> 0, pushed |-> 0, observed |-> 0,
              released |-> 0, stale |-> 0, opened |-> 0, table |-> None]

TableNew(initial_backends) ==
    /\ vecs = <<initial_backends>>
    /\ backends = 1
    /\ installed = <<initial_backends>>
    /\ reader_snap = [r \in Readers |-> None]
    /\ reader_seen = [r \in Readers |-> <<>>]

SelIdle == sel_out = [called |-> FALSE, result |-> None]
TrkIdle ==
    /\ tracker = [ewma |-> Ms(InitialLatencyMs), decay_alpha |-> AlphaUnit \div 2,
                  active_requests |-> 0]
    /\ trk_hist = [initial |-> Ms(InitialLatencyMs),
                   max_observed |-> Ms(InitialLatencyMs), calls |-> 0,
                   sample |-> 0, prev |-> Ms(InitialLatencyMs), live |-> 0]
GuardsIdle == guards = <<>>
ObsIdle ==
    /\ obs_pc = [t \in Observers |-> "done"]
    /\ obs_rtt = [t \in Observers |-> 0]
    /\ current_bits = [t \in Observers |-> 0]
    /\ obs_spurious = [t \in Observers |-> 0]
    /\ obs_retries = [t \in Observers |-> FALSE]
    /\ obs_applied = [t \in Observers |-> 0]
\* ConnectionPool::new
PoolNew ==
    /\ idle_connections = <<>>
    /\ sender_closed = [s \in SenderId |-> FALSE]
    /\ sender_addr = [s \in SenderId |-> None]
PoolHarnessIdle ==
    /\ pool_held = [t \in Tasks |-> None]
    /\ pool_last = [op |-> "none", task |-> None, addr |-> None,
                    sender |-> None, taken |-> 0]
    /\ push_count = [a \in Addr |-> 0]
    /\ removed_count = [a \in Addr |-> 0]
FwdIdle ==
    /\ pc = [t \in Tasks |-> "idle"]
    /\ ewma_node = [t \in Tasks |-> None]
    /\ active_guard = [t \in Tasks |-> None]
    /\ sender = [t \in Tasks |-> None]
    /\ from_pool = [t \in Tasks |-> FALSE]
    /\ requests = [t \in Tasks |-> 0]
    /\ req_log = [t \in Tasks |-> NewLog("none")]
HcIdle ==
    /\ up = [a \in Addr |-> TRUE]
    /\ check_interval = 0
    /\ hc_pc = "off"
    /\ hc_snap = None
    /\ hc_idx = 0
    /\ hc_ticks = 0
    /\ last_probe = [o \in Obj |-> "none"]
    /\ set_healthy_calls = 0

(***************************************************************************)
(* SpecSel: one call of select_best_backend on an arbitrary routing table  *)
(* whose backends carry arbitrary flags, averages and gauges (a Backend    *)
(* outside the table is as Backend::new left it); nothing else runs during *)
(* the call.                                                               *)
(***************************************************************************)
SelEwmaVals == {Ms(5), Ms(11)}

InitSel ==
    /\ \E tbl \in TableChoices : TableNew(tbl)
    /\ healthy \in {h \in [Obj -> BOOLEAN] :
                      \A o \in Obj \ Range(Deref(snapshot)) : h[o]}
    /\ ewma \in {e \in [Obj -> SelEwmaVals \cup {Ms(InitialLatencyMs)}] :
                   \A o \in Obj :
                      e[o] = Ms(InitialLatencyMs) <=> o \notin Range(Deref(snapshot))}
    /\ active_requests \in {g \in [Obj -> 0..MaxActive] :
                              \A o \in Obj \ Range(Deref(snapshot)) : g[o] = 0}
    /\ SelIdle /\ TrkIdle /\ GuardsIdle /\ ObsIdle /\ PoolNew /\ PoolHarnessIdle
    /\ FwdIdle /\ HcIdle

\* a caller invokes select_best_backend(&routing_table)
CallSelect ==
    /\ sel_out' = [called |-> TRUE, result |-> select_best_backend]
    /\ UNCHANGED <<backendVars, tableVars, trkVars, guardVars, obsVars,
                   poolVars, poolHarnessVars, fwdVars, hcVars>>

NextSel == CallSelect
SpecSel == InitSel /\ [][NextSel]_vars

\* the healthy backends of the current snapshot
HealthyInTable == {Deref(backends)[i] : i \in
                     {j \in DOMAIN Deref(backends) : healthy[Deref(backends)[j]]}}
InTable == {Deref(backends)[i] : i \in DOMAIN Deref(backends)}

\* C1: with no concurrent writer, select_best_backend returns a healthy
\* backend of the snapshot whose score is minimal among the healthy ones,
\* never an unhealthy one, and none exactly when no backend is healthy.
C1_SelectMinHealthy ==
    sel_out.called =>
        /\ (sel_out.result = None) <=> (HealthyInTable = {})
        /\ sel_out.result # None =>
              /\ sel_out.result \in HealthyInTable
              /\ \A h \in HealthyInTable :
                    calculate_score(sel_out.result) <= calculate_score(h)

\* an unhealthy backend with a strictly better score was passed over
C1_Witness ==
    /\ sel_out.called
    /\ sel_out.result # None
    /\ \E u \in InTable :
          /\ ~healthy[u]
          /\ calculate_score(u) < calculate_score(sel_out.result)
    /\ Cardinality(HealthyInTable) >= 2

\* C2 (as claimed): among the healthy backends that share the minimum
\* score, the one returned has the smallest BackendId, whatever the order
\* of the table.
C2_TieSmallestId ==
    (sel_out.called /\ sel_out.result # None) =>
        \A h \in HealthyInTable :
            calculate_score(h) = calculate_score(sel_out.result)
                => BackendIdOf(sel_out.result) <= BackendIdOf(h)

(***************************************************************************)
(* SpecGauge: tasks take ActiveRequestGuards on one tracker and drop them  *)
(* in any order.  fetch_add and fetch_sub are single atomic operations.    *)
(***************************************************************************)
TrackerObj == 1

\* PeakEwma::increment_active: fetch_add(1), then the guard is built
increment_active(ar, b) == [ar EXCEPT ![b] = fetch_add(@)]

\* Drop for ActiveRequestGuard: fetch_sub(1)
guard_drop_twice(ar, b) == [ar EXCEPT ![b] = fetch_sub(fetch_sub(@))]
guard_drop(ar, b) == [ar EXCEPT ![b] = fetch_sub(@)]

InitGauge ==
    /\ BackendNew
    /\ TableNew(StartupBackends)
    /\ SelIdle /\ TrkIdle /\ GuardsIdle /\ ObsIdle /\ PoolNew /\ PoolHarnessIdle
    /\ FwdIdle /\ HcIdle

GaugeIncrement(t) ==
    /\ Len(guards) < MaxGuards
    /\ active_requests' = increment_active(active_requests, TrackerObj)
    /\ guards' = Append(guards, [holder |-> t, live |-> TRUE])
    /\ UNCHANGED <<healthy, ewma, tableVars, selVars, trkVars, obsVars, poolVars,
                   poolHarnessVars, fwdVars, hcVars>>

GaugeDrop(g) ==
    /\ guards[g].live
    /\ active_requests' = guard_drop(active_requests, TrackerObj)
    /\ guards' = [guards EXCEPT ![g].live = FALSE]
    /\ UNCHANGED <<healthy, ewma, tableVars, selVars, trkVars, obsVars, poolVars,
                   poolHarnessVars, fwdVars, hcVars>>

NextGauge ==
    \/ \E t \in Tasks : GaugeIncrement(t)
    \/ \E g \in DOMAIN guards : GaugeDrop(g)
SpecGauge == InitGauge /\ [][NextGauge]_vars

LiveGuards == {g \in DOMAIN guards : guards[g].live}

\* C3: after any interleaving of increment_active calls and guard drops the
\* gauge equals the number of guards issued and not yet dropped; it never
\* wraps below zero and is zero once every guard has been dropped.
C3_GaugeCountsLiveGuards ==
    /\ active_requests[TrackerObj] = Cardinality(LiveGuards)
    /\ active_requests[TrackerObj] <= MaxGuards
    /\ (LiveGuards = {}) => active_requests[TrackerObj] = 0

\* guards of two tasks, dropped out of issue order, all released at the end
C3_Witness ==
    /\ Len(guards) = MaxGuards
    /\ LiveGuards = {}
    /\ \E g, h \in DOMAIN guards : guards[g].holder # guards[h].holder
    /\ active_requests[TrackerObj] = 0

(***************************************************************************)
(* SpecObs: NumObservers tasks call observe_latency concurrently on one    *)
(* tracker.  Each call is the load of line 46 followed by the loop around  *)
(* compare_exchange_weak, one attempt per step.                            *)
(***************************************************************************)
ObsSamples == {Ms(20), Ms(80)}

\* AtomicU64::compare_exchange: succeeds iff the cell holds the expected bits
cas_always(cell, expected) == TRUE
cas_succeeds(cell, expected) == cell = expected

InitObs ==
    /\ BackendNew
    /\ TableNew(StartupBackends)
    /\ obs_pc = [t \in Observers |-> "load"]
    /\ obs_rtt \in [Observers -> ObsSamples]
    /\ current_bits = [t \in Observers |-> 0]
    /\ obs_spurious = [t \in Observers |-> 0]
    /\ obs_retries = [t \in Observers |-> FALSE]
    /\ obs_applied = [t \in Observers |-> 0]
    /\ SelIdle /\ TrkIdle /\ GuardsIdle /\ PoolNew /\ PoolHarnessIdle /\ FwdIdle /\ HcIdle

obsFrame == <<healthy, active_requests, tableVars, selVars, trkVars, guardVars,
              poolVars, poolHarnessVars, fwdVars, hcVars>>

\* let mut current_bits = self.ewma.load(Acquire)
ObsLoad(t) ==
    /\ obs_pc[t] = "load"
    /\ current_bits' = [current_bits EXCEPT ![t] = ewma[TrackerObj]]
    /\ obs_pc' = [obs_pc EXCEPT ![t] = "cas"]
    /\ UNCHANGED <<ewma, obs_rtt, obs_spurious, obs_retries, obs_applied,
                   obsFrame>>

\* compare_exchange_weak returns Ok: the new average is committed, break
ObsCasOk(t) ==
    /\ obs_pc[t] = "cas"
    /\ cas_succeeds(ewma[TrackerObj], current_bits[t])
    /\ ewma' = [ewma EXCEPT
                  ![TrackerObj] = next_ewma(current_bits[t], obs_rtt[t])]
    /\ obs_applied' = [obs_applied EXCEPT ![t] = @ + 1]
    /\ obs_pc' = [obs_pc EXCEPT ![t] = "done"]
    /\ UNCHANGED <<obs_rtt, current_bits, obs_spurious, obs_retries, obsFrame>>

\* compare_exchange_weak returns Err(updated_bits): another task won, retry
ObsCasRetry(t) ==
    /\ obs_pc[t] = "cas"
    /\ ~cas_succeeds(ewma[TrackerObj], current_bits[t])
    /\ current_bits' = [current_bits EXCEPT ![t] = ewma[TrackerObj]]
    /\ obs_retries' = [obs_retries EXCEPT ![t] = TRUE]
    /\ UNCHANGED <<ewma, obs_pc, obs_rtt, obs_spurious, obs_applied, obsFrame>>

\* the weak form may fail although the cell holds the expected bits
ObsCasSpurious(t) ==
    /\ obs_pc[t] = "cas"
    /\ ewma[TrackerObj] = current_bits[t]
    /\ SumOver(obs_spurious, Observers) < MaxSpurious
    /\ obs_spurious' = [obs_spurious EXCEPT ![t] = @ + 1]
    /\ current_bits' = [current_bits EXCEPT ![t] = ewma[TrackerObj]]
    /\ UNCHANGED <<ewma, obs_pc, obs_rtt, obs_retries, obs_applied, obsFrame>>

ObsStep(t) == ObsLoad(t) \/ ObsCasOk(t) \/ ObsCasRetry(t) \/ ObsCasSpurious(t)

NextObs ==
    \/ \E t \in Observers : ObsLoad(t)
    \/ \E t \in Observers : ObsCasOk(t)
    \/ \E t \in Observers : ObsCasRetry(t)
    \/ \E t \in Observers : ObsCasSpurious(t)
SpecObs == InitObs /\ [][NextObs]_vars
\* every task is scheduled again: no task is stopped for ever mid-call
SpecObsFair == SpecObs /\ \A t \in Observers : WF_vars(ObsStep(t))

\* the observers in each sequential order
ObsOrders == {p \in [1..NumObservers -> Observers] : Injective(p)}

\* the average after the calls of order p, one after another, from e
RECURSIVE ApplyInOrder(_, _, _)
ApplyInOrder(e, p, i) ==
    IF i > Len(p) THEN e
    ELSE ApplyInOrder(next_ewma(e, obs_rtt[p[i]]), p, i + 1)

SerialResults ==
    {ApplyInOrder(Ms(InitialLatencyMs), p, 1) : p \in ObsOrders}

ObsAllDone == \A t \in Observers : obs_pc[t] = "done"

\* C4: with concurrent observe_latency calls on one tracker, no call applies
\* its update more than once, every call terminates, and when all have
\* returned each has applied its update exactly once and the average equals
\* the result of the updates applied one after another in some order.
C4_ObserveSerializable ==
    /\ [](\A t \in Observers : obs_applied[t] <= 1)
    /\ [](ObsAllDone =>
            /\ \A t \in Observers : obs_applied[t] = 1
            /\ ewma[TrackerObj] \in SerialResults)
    /\ <>ObsAllDone

\* all calls returned, two of them decays, one after a retry forced by
\* another task's update and one after a spurious failure
C4_Witness ==
    /\ ObsAllDone
    /\ \E t, u \in Observers :
          /\ t # u
          /\ obs_rtt[t] < Ms(InitialLatencyMs)
          /\ obs_rtt[u] < Ms(InitialLatencyMs)
          /\ obs_retries[t]
          /\ obs_spurious[u] > 0
    /\ ewma[TrackerObj] \in SerialResults
    /\ ewma[TrackerObj] < Ms(InitialLatencyMs)

(***************************************************************************)
(* SpecRT: update_backends racing with readers that take snapshots.        *)
(* ArcSwap::store and ArcSwap::load_full are each one atomic operation on  *)
(* the shared pointer; a Vec behind an Arc is never written again.         *)
(***************************************************************************)
\* RoutingTable::update_backends: Arc::new(new_backends), then store
store_in_place(new_backends) ==
    [vecs |-> [vecs EXCEPT ![backends] = new_backends], backends |-> backends]
store_new_arc(new_backends) ==
    [vecs |-> Append(vecs, new_backends), backends |-> Len(vecs) + 1]

update_backends(new_backends) ==
    /\ Len(installed) <= MaxUpdates
    /\ vecs' = store_new_arc(new_backends).vecs
    /\ backends' = store_new_arc(new_backends).backends
    /\ installed' = Append(installed, new_backends)

InitRT ==
    /\ BackendNew
    /\ TableNew(StartupBackends)
    /\ SelIdle /\ TrkIdle /\ GuardsIdle /\ ObsIdle /\ PoolNew /\ PoolHarnessIdle
    /\ FwdIdle /\ HcIdle

rtFrame == <<backendVars, selVars, trkVars, guardVars, obsVars, poolVars,
             poolHarnessVars, fwdVars, hcVars>>

\* hot reloads: no backend, the newest backend alone, the start-up backends
\* again (equal contents in a new Vec), reordered, or one of them replaced
RTChoices == {<<>>, <<NumObjs>>, <<1, 2>>, <<2, 1>>, <<2, NumObjs>>}

RTUpdate ==
    /\ \E new_backends \in RTChoices : update_backends(new_backends)
    /\ UNCHANGED <<reader_snap, reader_seen, rtFrame>>

\* a reader calls snapshot() and keeps the Arc
RTSnapshot(r) ==
    /\ reader_snap' = [reader_snap EXCEPT ![r] = snapshot]
    /\ reader_seen' = [reader_seen EXCEPT ![r] = Deref(snapshot)]
    /\ UNCHANGED <<vecs, backends, installed, rtFrame>>

NextRT ==
    \/ RTUpdate
    \/ \E r \in Readers : RTSnapshot(r)
SpecRT == InitRT /\ [][NextRT]_vars

LastInstalled == installed[Len(installed)]

\* C5: a snapshot taken after update_backends(new) equals new (the sequence
\* installed last), in the same order; every snapshot held equals in full one
\* installed sequence; a snapshot already held keeps the contents it had
\* when it was taken, whatever update_backends does later.
C5_SnapshotStable ==
    /\ [](Deref(snapshot) = LastInstalled)
    /\ [](\A r \in Readers : reader_snap[r] # None =>
            /\ Deref(reader_snap[r]) = reader_seen[r]
            /\ \E i \in DOMAIN installed : installed[i] = reader_seen[r])
    /\ [][\A r \in Readers :
            /\ reader_snap'[r] # reader_snap[r] =>
                  reader_seen'[r] = LastInstalled
            /\ (reader_snap'[r] = reader_snap[r] /\ reader_snap[r] # None) =>
                  Deref(reader_snap[r])' = Deref(reader_snap[r])]_vars

\* the hot-reload scenario: S1 = [1,2] still held and intact after the
\* table was replaced by [3]; a later snapshot is [3]
C5_Witness ==
    /\ \E r, q \in Readers :
          /\ reader_snap[r] # None /\ reader_snap[q] # None
          /\ Deref(reader_snap[r]) = <<1, 2>>
          /\ Deref(reader_snap[q]) = <<3>>
          /\ reader_snap[r] # backends
    /\ Deref(snapshot) = <<3>>
    /\ Len(installed) = 2

(***************************************************************************)
(* ConnectionPool (pool.rs)                                                *)
(* The DashMap is a function whose domain is the set of addresses that     *)
(* have a queue; a SegQueue is a sequence, pushed at the tail and popped   *)
(* at the head.                                                            *)
(***************************************************************************)
MapInsert(m, k, v) ==
    [x \in (DOMAIN m) \cup {k} |-> IF x = k THEN v ELSE m[x]]

\* SendRequest::is_closed
is_closed(s) == sender_closed[s]

\* `while let Some(sender) = queue.pop()`: the sender returned, the queue
\* left behind and the number of senders taken off the queue
RECURSIVE pop_first(_)
pop_first(q) ==
    IF q = <<>> THEN [sender |-> None, rest |-> <<>>, taken |-> 0]
    ELSE [sender |-> Head(q), rest |-> Tail(q), taken |-> 1]
RECURSIVE pop_peek(_)
pop_peek(q) ==
    IF q = <<>> THEN [sender |-> None, rest |-> <<>>, taken |-> 0]
    ELSE IF ~is_closed(Head(q))
         THEN [sender |-> Head(q), rest |-> q, taken |-> 0]
         ELSE [pop_peek(Tail(q)) EXCEPT !.taken = @ + 1]
RECURSIVE pop_loop(_)
pop_loop(q) ==
    IF q = <<>> THEN [sender |-> None, rest |-> <<>>, taken |-> 0]
    ELSE IF ~is_closed(Head(q))
         THEN [sender |-> Head(q), rest |-> Tail(q), taken |-> 1]
         ELSE [pop_loop(Tail(q)) EXCEPT !.taken = @ + 1]

\* ConnectionPool::try_pop: the sender (or None), the map afterwards
try_pop(addr) ==
    IF addr \notin DOMAIN idle_connections
    THEN [sender |-> None, map |-> idle_connections, taken |-> 0]
    ELSE LET r == pop_loop(idle_connections[addr])
         IN  [sender |-> r.sender,
              map |-> [idle_connections EXCEPT ![addr] = r.rest],
              taken |-> r.taken]

\* ConnectionPool::push: the map afterwards
push_unchecked(addr, s) ==
    MapInsert(idle_connections, addr,
              Append(IF addr \in DOMAIN idle_connections
                     THEN idle_connections[addr] ELSE <<>>, s))
push(addr, s) ==
    IF is_closed(s) THEN idle_connections
    ELSE MapInsert(idle_connections, addr,
                   Append(IF addr \in DOMAIN idle_connections
                          THEN idle_connections[addr] ELSE <<>>, s))

\* a connection that has not been opened yet
FreshSenders == {s \in SenderId : sender_addr[s] = None}
NewSender == CHOOSE s \in FreshSenders : \A o \in FreshSenders : s <= o

QueueOf(m, a) == IF a \in DOMAIN m THEN m[a] ELSE <<>>

(***************************************************************************)
(* SpecPool: clients open connections, push each sender under the address  *)
(* it was opened to (as forward_request does) and pop from any address,    *)
(* while upstreams close connections at any time.                          *)
(***************************************************************************)
InitPool ==
    /\ BackendNew
    /\ TableNew(StartupBackends)
    /\ SelIdle /\ TrkIdle /\ GuardsIdle /\ ObsIdle /\ PoolNew /\ PoolHarnessIdle
    /\ FwdIdle /\ HcIdle

poolFrame == <<backendVars, tableVars, selVars, trkVars, guardVars, obsVars, fwdVars,
               hcVars>>

\* a client obtains a post-handshake sender for address a
PoolConnect(t, a) ==
    /\ pool_held[t] = None
    /\ FreshSenders # {}
    /\ sender_addr' = [sender_addr EXCEPT ![NewSender] = a]
    /\ pool_held' = [pool_held EXCEPT ![t] = NewSender]
    /\ pool_last' = [op |-> "connect", task |-> t, addr |-> a,
                     sender |-> NewSender, taken |-> 0]
    /\ UNCHANGED <<idle_connections, sender_closed, push_count, removed_count,
                   poolFrame>>

\* connection_pool.push(a, sender)
PoolPush(t, a) ==
    /\ pool_held[t] # None
    /\ a = sender_addr[pool_held[t]]
    /\ is_closed(pool_held[t]) \/ SumOver(push_count, Addr) < MaxPushes
    /\ idle_connections' = push(a, pool_held[t])
    /\ pool_held' = [pool_held EXCEPT ![t] = None]
    /\ push_count' = [push_count EXCEPT
                        ![a] = IF sender_closed[pool_held[t]] THEN @ ELSE @ + 1]
    /\ pool_last' = [op |-> "push", task |-> t, addr |-> a,
                     sender |-> pool_held[t], taken |-> 0]
    /\ UNCHANGED <<sender_closed, sender_addr, removed_count, poolFrame>>

\* connection_pool.try_pop(&a)
PoolTryPop(t, a) ==
    /\ pool_held[t] = None
    /\ idle_connections' = try_pop(a).map
    /\ pool_held' = [pool_held EXCEPT ![t] = try_pop(a).sender]
    /\ removed_count' = [removed_count EXCEPT ![a] = @ + try_pop(a).taken]
    /\ pool_last' = [op |-> "try_pop", task |-> t, addr |-> a,
                     sender |-> try_pop(a).sender, taken |-> try_pop(a).taken]
    /\ UNCHANGED <<sender_closed, sender_addr, push_count, poolFrame>>

\* the upstream (or the connection driver) closes an open connection
PoolClose(s) ==
    /\ sender_addr[s] # None
    /\ ~sender_closed[s]
    /\ sender_closed' = [sender_closed EXCEPT ![s] = TRUE]
    /\ pool_last' = [op |-> "close", task |-> None, addr |-> sender_addr[s],
                     sender |-> s, taken |-> 0]
    /\ UNCHANGED <<idle_connections, sender_addr, pool_held, push_count,
                   removed_count, poolFrame>>

NextPool ==
    \/ \E t \in Tasks, a \in Addr : PoolConnect(t, a)
    \/ \E t \in Tasks, a \in Addr : PoolPush(t, a)
    \/ \E t \in Tasks, a \in Addr : PoolTryPop(t, a)
    \/ \E s \in SenderId : PoolClose(s)
SpecPool == InitPool /\ [][NextPool]_vars

\* C6: try_pop(addr) never returns a sender that is closed when popped; it
\* takes senders off the head of the queue of addr, discards the closed ones
\* and returns the first that is not closed; it returns none only when addr
\* has no queue or every sender of the queue was closed (queue drained).
C6_TryPopFirstLive ==
    [][pool_last'.op = "try_pop" =>
        LET a == pool_last'.addr
            r == pool_held'[pool_last'.task]
            q == QueueOf(idle_connections, a)
        IN  /\ r # None =>
                 /\ ~sender_closed[r]
                 /\ \E i \in DOMAIN q :
                       /\ q[i] = r
                       /\ \A j \in 1..(i - 1) : sender_closed[q[j]]
                       /\ idle_connections'[a] = SubSeq(q, i + 1, Len(q))
            /\ r = None =>
                 /\ \A i \in DOMAIN q : sender_closed[q[i]]
                 /\ QueueOf(idle_connections', a) = <<>>
            /\ DOMAIN idle_connections' = DOMAIN idle_connections
            /\ \A b \in (DOMAIN idle_connections) \ {a} :
                  idle_connections'[b] = idle_connections[b]]_vars

\* a try_pop that met a closed sender, discarded it and returned a live one
C6_Witness ==
    /\ pool_last.op = "try_pop"
    /\ pool_last.taken >= 2
    /\ pool_last.sender # None
    /\ pool_held[pool_last.task] = pool_last.sender
    /\ ~sender_closed[pool_last.sender]

\* C7: the number of idle senders queued for an address equals the number of
\* pushes for it made with a sender not closed at push time minus the number
\* of senders try_pop took off its queue; a push of a closed sender leaves
\* the pool unchanged, so no sender enters a queue while reporting closed.
C7_QueueLengthAccounting ==
    /\ [](\A a \in Addr :
            Len(QueueOf(idle_connections, a)) = push_count[a] - removed_count[a])
    /\ [][/\ (pool_last'.op = "push" /\ sender_closed[pool_last'.sender]) =>
               idle_connections' = idle_connections
          /\ \A a \in DOMAIN idle_connections' :
               \A s \in Range(idle_connections'[a]) \ Range(QueueOf(idle_connections, a)) :
                  ~sender_closed[s]]_vars

\* a queue that holds one sender after two accepted pushes and one pop,
\* and a closed sender that was pushed and did not enter any queue
C7_Witness ==
    /\ \E a \in Addr :
          /\ push_count[a] = 2
          /\ removed_count[a] = 1
          /\ Len(QueueOf(idle_connections, a)) = 1
    /\ pool_last.op = "push"
    /\ sender_closed[pool_last.sender]
    /\ \A a \in DOMAIN idle_connections :
          pool_last.sender \notin Range(idle_connections[a])

(***************************************************************************)
(* forward_request (server.rs), one task per client connection: hyper's    *)
(* serve_connection calls it for one request at a time and streams the     *)
(* body of the response it returns before it takes the next request.       *)
(* Every .await is a step boundary; the lock-free calls in between are     *)
(* steps of their own.  try_pop and observe_latency take effect at one     *)
(* atomic operation each (the pop that returns, the compare-exchange that  *)
(* succeeds), so each is one step.                                         *)
(***************************************************************************)
\* round-trip times a request may measure
FwdSamples == {Ms(80)}

\* PeakEwma::observe_latency as a whole: the average after the call
observe_latency_skip(e, b, rtt_ms) == e
observe_latency_reselect(e, b, rtt_ms) ==
    LET cur == IF select_best_backend = None THEN b ELSE select_best_backend
    IN  [e EXCEPT ![cur] = next_ewma(@, rtt_ms)]
observe_latency(e, b, rtt_ms) == [e EXCEPT ![b] = next_ewma(@, rtt_ms)]

hcRest == <<check_interval, hc_pc, hc_snap, hc_idx, hc_ticks, last_probe,
           set_healthy_calls>>
fwdFrame == <<tableVars, selVars, trkVars, guardVars, obsVars, poolHarnessVars, hcRest>>

\* leaving forward_request: the locals are dropped, `sender` (if the task
\* still owns one) and then `_active_guard` (if it was taken)
drop_locals_leak(t) ==
    /\ active_requests' = active_requests
    /\ sender_closed' = IF sender[t] = None THEN sender_closed
                        ELSE [sender_closed EXCEPT ![sender[t]] = TRUE]
drop_locals(t) ==
    /\ active_requests' = IF active_guard[t] = None THEN active_requests
                          ELSE guard_drop(active_requests, active_guard[t])
    /\ sender_closed' = IF sender[t] = None THEN sender_closed
                        ELSE [sender_closed EXCEPT ![sender[t]] = TRUE]

FwdExit(t, res) ==
    /\ drop_locals(t)
    /\ req_log' = [req_log EXCEPT
                     ![t].result = res,
                     ![t].released = IF active_guard[t] = None THEN @ ELSE @ + 1,
                     ![t].table = None]
    /\ pc' = [pc EXCEPT ![t] = IF res = "Ok" THEN "streaming" ELSE "idle"]
    /\ ewma_node' = [ewma_node EXCEPT ![t] = None]
    /\ active_guard' = [active_guard EXCEPT ![t] = None]
    /\ sender' = [sender EXCEPT ![t] = None]
    /\ from_pool' = [from_pool EXCEPT ![t] = FALSE]

\* lines 80-81: upstream_addr, copied from the selected backend once
upstream_addr_reselect(t) ==
    IF select_best_backend = None THEN AddrOf(ewma_node[t])
    ELSE AddrOf(select_best_backend)
upstream_addr(t) == AddrOf(ewma_node[t])

\* the connection of task t may send a request: the connections are
\* numbered in the order of their first request
MayRequest(t) ==
    /\ SumOver(requests, Tasks) < MaxRequests
    /\ IF t = 1 THEN TRUE ELSE requests[t - 1] > 0

\* lines 78-86: select_best_backend returned None
FwdNoUpstream(t) ==
    /\ pc[t] = "idle"
    /\ MayRequest(t)
    /\ select_best_backend = None
    /\ requests' = [requests EXCEPT ![t] = @ + 1]
    /\ req_log' = [req_log EXCEPT ![t] = NewLog("NoUpstream")]
    /\ UNCHANGED <<pc, ewma_node, active_guard, sender, from_pool,
                   backendVars, poolVars, up, fwdFrame>>

\* lines 78-81: select_best_backend returned Some(backend)
FwdSelect(t) ==
    /\ pc[t] = "idle"
    /\ MayRequest(t)
    /\ select_best_backend # None
    /\ requests' = [requests EXCEPT ![t] = @ + 1]
    /\ req_log' = [req_log EXCEPT
                     ![t] = [NewLog("pending") EXCEPT !.table = snapshot]]
    /\ ewma_node' = [ewma_node EXCEPT ![t] = select_best_backend]
    /\ pc' = [pc EXCEPT ![t] = "selected"]
    /\ UNCHANGED <<active_guard, sender, from_pool, backendVars, poolVars, up,
                   fwdFrame>>

\* line 90: let _active_guard = ewma_node.ewma.increment_active()
FwdIncrement(t) ==
    /\ pc[t] = "selected"
    /\ active_requests' = increment_active(active_requests, ewma_node[t])
    /\ active_guard' = [active_guard EXCEPT ![t] = ewma_node[t]]
    /\ pc' = [pc EXCEPT ![t] = "try_pop"]
    /\ UNCHANGED <<healthy, ewma, ewma_node, sender, from_pool, requests,
                   req_log, poolVars, up, fwdFrame>>

\* line 97: connection_pool.try_pop(&upstream_addr)
FwdTryPop(t) ==
    LET r == try_pop(upstream_addr(t))
    IN  /\ pc[t] = "try_pop"
        /\ idle_connections' = r.map
        /\ sender' = [sender EXCEPT ![t] = r.sender]
        /\ from_pool' = [from_pool EXCEPT ![t] = r.sender # None]
        /\ req_log' = [req_log EXCEPT ![t].popped = @ + r.taken]
        /\ pc' = [pc EXCEPT ![t] =
                    IF r.sender # None THEN "ready_pooled" ELSE "connect"]
        /\ UNCHANGED <<ewma_node, active_guard, requests, backendVars,
                       sender_closed, sender_addr, up, fwdFrame>>

\* line 98: s.ready().await.is_ok() on the pooled sender
FwdPooledReady(t) ==
    /\ pc[t] = "ready_pooled"
    /\ ~is_closed(sender[t])
    /\ pc' = [pc EXCEPT ![t] = "ready"]
    /\ UNCHANGED <<ewma_node, active_guard, sender, from_pool, requests,
                   req_log, backendVars, poolVars, up, fwdFrame>>

\* lines 98-104: the readiness check failed; s is dropped at the end of the
\* `if let` block, sender_opt stays None and the match takes the None arm
stale_outcome_reuse(t) == [pc |-> "ready", sender |-> sender[t]]
stale_outcome(t) == [pc |-> "connect", sender |-> None]

FwdPooledStale(t) ==
    /\ pc[t] = "ready_pooled"
    /\ is_closed(sender[t])
    /\ sender' = [sender EXCEPT ![t] = stale_outcome(t).sender]
    /\ from_pool' = [from_pool EXCEPT ![t] = FALSE]
    /\ pc' = [pc EXCEPT ![t] = stale_outcome(t).pc]
    /\ req_log' = [req_log EXCEPT ![t].stale = @ + 1]
    /\ UNCHANGED <<ewma_node, active_guard, requests, backendVars,
                   poolVars, up, fwdFrame>>

\* line 107: TcpStream::connect(upstream_addr).await is Ok
FwdConnectOk(t) ==
    /\ pc[t] = "connect"
    /\ pc' = [pc EXCEPT ![t] = "handshake"]
    /\ UNCHANGED <<ewma_node, active_guard, sender, from_pool, requests,
                   req_log, backendVars, poolVars, up, fwdFrame>>

\* lines 109-112: connect failed, return Err
FwdConnectErrDemote(t) ==
    /\ pc[t] = "connect"
    /\ FwdExit(t, "Connect")
    /\ healthy' = set_healthy(healthy, ewma_node[t], FALSE)
    /\ UNCHANGED <<ewma, idle_connections, sender_addr, requests, up,
                   fwdFrame>>
FwdConnectErr(t) ==
    /\ pc[t] = "connect"
    /\ FwdExit(t, "Connect")
    /\ UNCHANGED <<healthy, ewma, idle_connections, sender_addr, requests, up,
                   fwdFrame>>

\* lines 118-133: handshake Ok; the connection driver is spawned
FwdHandshakeOk(t) ==
    /\ pc[t] = "handshake"
    /\ FreshSenders # {}
    /\ sender_addr' = [sender_addr EXCEPT ![NewSender] = upstream_addr(t)]
    /\ sender' = [sender EXCEPT ![t] = NewSender]
    /\ req_log' = [req_log EXCEPT ![t].opened = @ + 1]
    /\ pc' = [pc EXCEPT ![t] = "ready"]
    /\ UNCHANGED <<ewma_node, active_guard, from_pool, requests,
                   backendVars, idle_connections, sender_closed, up, fwdFrame>>

\* lines 120-123: handshake failed, return Err
FwdHandshakeErr(t) ==
    /\ pc[t] = "handshake"
    /\ FwdExit(t, "Handshake")
    /\ UNCHANGED <<healthy, ewma, idle_connections, sender_addr, requests, up,
                   fwdFrame>>

\* line 142: sender.ready().await is Ok
FwdReadyOk(t) ==
    /\ pc[t] = "ready"
    /\ ~is_closed(sender[t])
    /\ pc' = [pc EXCEPT ![t] = "send"]
    /\ UNCHANGED <<ewma_node, active_guard, sender, from_pool, requests,
                   req_log, backendVars, poolVars, up, fwdFrame>>

\* lines 142-144: not ready, return Err
FwdReadyErr(t) ==
    /\ pc[t] = "ready"
    /\ is_closed(sender[t])
    /\ FwdExit(t, "Ready")
    /\ UNCHANGED <<healthy, ewma, idle_connections, sender_addr, requests, up,
                   fwdFrame>>

\* line 146: send_request(req).await yields the response
FwdSendOk(t) ==
    /\ pc[t] = "send"
    /\ ~is_closed(sender[t])
    /\ pc' = [pc EXCEPT ![t] = "push"]
    /\ UNCHANGED <<ewma_node, active_guard, sender, from_pool, requests,
                   req_log, backendVars, poolVars, up, fwdFrame>>

\* line 146: send_request(req).await? fails, return Err
FwdSendErr(t) ==
    /\ pc[t] = "send"
    /\ FwdExit(t, "Send")
    /\ UNCHANGED <<healthy, ewma, idle_connections, sender_addr, requests, up,
                   fwdFrame>>

\* line 149: connection_pool.push(upstream_addr, sender)
FwdPush(t) ==
    /\ pc[t] = "push"
    /\ idle_connections' = push(upstream_addr(t), sender[t])
    /\ sender' = [sender EXCEPT ![t] = None]
    /\ req_log' = [req_log EXCEPT ![t].pushed = @ + 1]
    /\ pc' = [pc EXCEPT ![t] = "observe"]
    /\ UNCHANGED <<ewma_node, active_guard, from_pool, requests, backendVars,
                   sender_closed, sender_addr, up, fwdFrame>>

\* lines 152-153: ewma_node.ewma.observe_latency(rtt_ms)
FwdObserve(t) ==
    /\ pc[t] = "observe"
    /\ \E rtt_ms \in FwdSamples :
          ewma' = observe_latency(ewma, ewma_node[t], rtt_ms)
    /\ req_log' = [req_log EXCEPT ![t].observed = @ + 1]
    /\ pc' = [pc EXCEPT ![t] = "return"]
    /\ UNCHANGED <<healthy, active_requests, ewma_node, active_guard, sender,
                   from_pool, requests, poolVars, up, fwdFrame>>

\* line 155: Ok(res); the locals are dropped and the Response<Incoming>,
\* headers received and body not yet read, goes to serve_connection
FwdReturnOk(t) ==
    /\ pc[t] = "return"
    /\ FwdExit(t, "Ok")
    /\ UNCHANGED <<healthy, ewma, idle_connections, sender_addr, requests, up,
                   fwdFrame>>

\* lines 58-60: serve_connection has streamed the response body to the
\* client (or the stream has failed); the connection takes its next request
FwdStreamDone(t) ==
    /\ pc[t] = "streaming"
    /\ pc' = [pc EXCEPT ![t] = "idle"]
    /\ UNCHANGED <<ewma_node, active_guard, sender, from_pool, requests,
                   req_log, backendVars, poolVars, up, fwdFrame>>

\* the future is dropped while suspended at an .await (client gone)
AwaitPoints == {"ready_pooled", "connect", "handshake", "ready", "send"}
FwdCancel(t) ==
    /\ pc[t] \in AwaitPoints
    /\ FwdExit(t, "Cancelled")
    /\ UNCHANGED <<healthy, ewma, idle_connections, sender_addr, requests, up,
                   fwdFrame>>

\* the upstream or the connection driver closes an open connection
SenderClose(s) ==
    /\ sender_addr[s] # None
    /\ ~sender_closed[s]
    /\ sender_closed' = [sender_closed EXCEPT ![s] = TRUE]
    /\ UNCHANGED <<idle_connections, sender_addr, backendVars, fwdVars, up,
                   fwdFrame>>

\* an upstream endpoint stops or starts accepting connections
EndpointFlip(a) ==
    /\ up' = [up EXCEPT ![a] = ~@]
    /\ UNCHANGED <<backendVars, poolVars, fwdVars, fwdFrame>>

(***************************************************************************)
(* SpecFwd: NumTasks forwarding tasks over the start-up routing table,     *)
(* whose health flags are in any state the checker may have left them in;  *)
(* a connect, a handshake, a ready or a send may succeed or fail.          *)
(***************************************************************************)
InitFwd ==
    /\ healthy \in {h \in [Obj -> BOOLEAN] :
                      \A o \in Obj \ Range(StartupBackends) : h[o]}
    /\ ewma = [o \in Obj |-> Ms(InitialLatencyMs)]
    /\ active_requests = [o \in Obj |-> 0]
    /\ TableNew(StartupBackends)
    /\ SelIdle /\ TrkIdle /\ GuardsIdle /\ ObsIdle /\ PoolNew /\ PoolHarnessIdle
    /\ FwdIdle /\ HcIdle

FwdStep(t) ==
    \/ FwdNoUpstream(t)
    \/ FwdSelect(t)
    \/ FwdIncrement(t)
    \/ FwdTryPop(t)
    \/ FwdPooledReady(t)
    \/ FwdPooledStale(t)
    \/ FwdConnectOk(t)
    \/ FwdConnectErr(t)
    \/ FwdHandshakeOk(t)
    \/ FwdHandshakeErr(t)
    \/ FwdReadyOk(t)
    \/ FwdReadyErr(t)
    \/ FwdSendOk(t)
    \/ FwdSendErr(t)
    \/ FwdPush(t)
    \/ FwdObserve(t)
    \/ FwdReturnOk(t)
    \/ FwdStreamDone(t)
    \/ FwdCancel(t)

NextFwd ==
    \/ \E t \in Tasks : FwdStep(t)
    \/ \E s \in SenderId : SenderClose(s)
SpecFwd == InitFwd /\ [][NextFwd]_vars

\* where a sender is
QueuedCount(s) ==
    SumOver([a \in DOMAIN idle_connections |->
               Cardinality({i \in DOMAIN idle_connections[a] :
                              idle_connections[a][i] = s})],
            DOMAIN idle_connections)
HoldCount(s) == Cardinality({t \in Tasks : sender[t] = s})

\* C8: every upstream sender is in exactly one place: queued once in one
\* queue of the pool, or owned by exactly one forwarding task, or dropped
\* (closed); so two try_pop calls never return the same sender and a sender
\* is never in the pool while a task owns it.
C8_SenderInOnePlace ==
    \A s \in SenderId :
        /\ QueuedCount(s) + HoldCount(s) <= 1
        /\ sender_addr[s] = None => QueuedCount(s) + HoldCount(s) = 0
        /\ (sender_addr[s] # None /\ QueuedCount(s) + HoldCount(s) = 0)
              => sender_closed[s]

\* a task owns the sender try_pop gave it, which is in no queue any more,
\* while the task that pushed it is still finishing its own request on the
\* same backend and owns nothing
C8_Witness ==
    \E t, u \in Tasks :
        /\ t # u
        /\ sender[u] # None /\ from_pool[u]
        /\ QueuedCount(sender[u]) = 0 /\ HoldCount(sender[u]) = 1
        /\ pc[t] # "idle" /\ req_log[t].pushed = 1 /\ sender[t] = None
        /\ ewma_node[t] = ewma_node[u]

FailKinds == {"Connect", "Handshake", "Ready", "Send", "Cancelled"}
GuardsOn(b) == Cardinality({t \in Tasks : active_guard[t] = b})

\* C10 (as claimed): a request that fails after selection, or is cancelled,
\* pushes no sender, records no latency sample, releases its guard exactly
\* once, and leaves the pool as it was: it has neither added a sender to it
\* nor taken one from it.
C10_FailedRequestNoTrace ==
    \A t \in Tasks : req_log[t].result \in FailKinds =>
        /\ req_log[t].pushed = 0
        /\ req_log[t].observed = 0
        /\ req_log[t].released = 1
        /\ req_log[t].popped = 0

\* C10 (amended): a request that fails after selection, or is cancelled,
\* pushes no sender, records no latency sample and releases its guard
\* exactly once; its failing step leaves every average and the pool
\* unchanged and takes the selected backend's gauge down by one, and the
\* gauge always equals the number of guards alive.  (Senders the request
\* popped earlier are not given back to the pool.)
C10_FailedRequestReleases ==
    /\ [](\A t \in Tasks : req_log[t].result \in FailKinds =>
            /\ req_log[t].pushed = 0
            /\ req_log[t].observed = 0
            /\ req_log[t].released = 1)
    /\ [](\A b \in Obj : active_requests[b] = GuardsOn(b))
    /\ [][\A t \in Tasks :
            (req_log[t].result = "pending" /\ req_log'[t].result \in FailKinds)
            => /\ ewma' = ewma
               /\ idle_connections' = idle_connections
               /\ active_requests' =
                    [active_requests EXCEPT ![ewma_node[t]] = @ - 1]]_vars

\* a request that took a sender from the pool and then failed to send, with
\* every gauge back at zero and the sender not returned to the pool
C10_Witness ==
    \E t \in Tasks :
        /\ req_log[t].result = "Send"
        /\ req_log[t].popped >= 1
        /\ \A b \in Obj : active_requests[b] = 0
        /\ \A a \in DOMAIN idle_connections : idle_connections[a] = <<>>
        /\ \E o \in Obj : ewma[o] # Ms(InitialLatencyMs)

\* C11: while the response of a request is being streamed (its headers were
\* received and forward_request has returned it), the guard forward_request
\* took on the selected backend is still alive and the backend's gauge still
\* counts the request.
C11_GuardHeldWhileStreaming ==
    \A t \in Tasks : pc[t] = "streaming" =>
        /\ active_guard[t] # None
        /\ active_requests[active_guard[t]] >= 1

C17_ForwardLeavesHealth ==
    /\ [][healthy' = healthy]_vars
    /\ [][\A t \in Tasks :
            (pc[t] = "idle" /\ requests'[t] = requests[t] + 1)
            => /\ UNCHANGED <<backendVars, tableVars, poolVars>>
               /\ \A u \in Tasks \ {t} :
                     /\ pc'[u] = pc[u]
                     /\ ewma_node'[u] = ewma_node[u]
                     /\ sender'[u] = sender[u]
                     /\ active_guard'[u] = active_guard[u]]_vars

\* one request failed at connect and one at send, and every backend is
\* still flagged healthy
C17_Witness ==
    /\ \E t, u \in Tasks :
          /\ req_log[t].result = "Connect"
          /\ req_log[u].result = "Send"
    /\ \A o \in Obj : healthy[o]

\* C20: a request takes its guard right after selection, on the backend
\* selected and before it has any sender; it acquires or opens its sender
\* (to the selected backend's address) with the guard held; it dispatches
\* with guard and sender held; push comes only after dispatch, once, with
\* the sender of the request and under the selected backend's address;
\* observe_latency comes after the push, once, on the selected backend; a
\* request that returned a response has pushed once and observed once; a
\* request for which selection returned none changes no backend and no pool
\* state.
C20_StepOrder ==
    /\ [][\A t \in Tasks :
            (active_guard[t] = None /\ active_guard'[t] # None)
            => /\ pc[t] = "selected"
               /\ active_guard'[t] = ewma_node[t]
               /\ active_requests' =
                    [active_requests EXCEPT ![ewma_node[t]] = @ + 1]
               /\ sender[t] = None
               /\ req_log[t] = [NewLog("pending") EXCEPT !.table = backends]]_vars
    /\ [][\A t \in Tasks :
            (sender[t] = None /\ sender'[t] # None)
            => /\ active_guard[t] # None
               /\ active_guard[t] = ewma_node[t]
               /\ pc[t] \in {"try_pop", "handshake"}
               /\ sender_addr'[sender'[t]] = AddrOf(ewma_node[t])]_vars
    /\ [][\A t \in Tasks :
            (pc'[t] = "push" /\ pc[t] # "push")
            => /\ pc[t] = "send"
               /\ active_guard[t] = ewma_node[t]
               /\ sender[t] # None
               /\ req_log[t].pushed = 0 /\ req_log[t].observed = 0]_vars
    /\ [][\A t \in Tasks :
            req_log'[t].pushed > req_log[t].pushed
            => /\ pc[t] = "push"
               /\ req_log[t].pushed = 0 /\ req_log[t].observed = 0
               /\ active_guard[t] = ewma_node[t]
               /\ idle_connections' = push(AddrOf(ewma_node[t]), sender[t])
               /\ ~sender_closed[sender[t]] =>
                     LET q == idle_connections'[AddrOf(ewma_node[t])]
                     IN  q[Len(q)] = sender[t]
               /\ ewma' = ewma]_vars
    /\ [][\A t \in Tasks :
            req_log'[t].observed > req_log[t].observed
            => /\ req_log[t].pushed = 1 /\ req_log[t].observed = 0
               /\ active_guard[t] = ewma_node[t]
               /\ \E rtt_ms \in FwdSamples :
                     ewma' = [ewma EXCEPT
                                ![ewma_node[t]] = next_ewma(@, rtt_ms)]
               /\ idle_connections' = idle_connections]_vars
    /\ [](\A t \in Tasks :
            /\ req_log[t].result = "Ok" =>
                 /\ req_log[t].pushed = 1
                 /\ req_log[t].observed = 1
                 /\ req_log[t].released = 1
            /\ req_log[t].result = "NoUpstream" =>
                 req_log[t] = NewLog("NoUpstream"))
    /\ [][\A t \in Tasks :
            (req_log'[t] # req_log[t] /\ req_log'[t].result = "NoUpstream")
            => UNCHANGED <<backendVars, poolVars, active_guard, sender>>]_vars

\* a request that got its response: its sender is queued under the address
\* of backend 1, whose average took the sample, and its guard is gone
C20_Witness ==
    \E t \in Tasks :
        /\ req_log[t].result = "Ok"
        /\ req_log[t].pushed = 1 /\ req_log[t].observed = 1
        /\ req_log[t].opened = 1
        /\ ewma[1] = Ms(80)
        /\ AddrOf(1) \in DOMAIN idle_connections
        /\ Len(idle_connections[AddrOf(1)]) = 1
        /\ active_requests[1] = 0

(***************************************************************************)
(* spawn_health_checker (prober.rs)                                        *)
(* One task: wait for a tick, take a snapshot, then for each backend of    *)
(* the snapshot await the probe (a TCP connect bounded by the timeout),    *)
(* read the flag and store the result when it differs.  Only this task     *)
(* writes the flag, so the read and the store form one step with the       *)
(* completion of the probe.                                                *)
(***************************************************************************)
\* lines 27-43: the flag after a probe whose result is is_healthy_now
probe_write_demote_only(b, is_healthy_now) ==
    IF is_healthy_now # is_healthy(b) /\ ~is_healthy_now
    THEN set_healthy(healthy, b, is_healthy_now) ELSE healthy
probe_write(b, is_healthy_now) ==
    IF is_healthy_now # is_healthy(b)
    THEN set_healthy(healthy, b, is_healthy_now) ELSE healthy

hcFrame == <<selVars, trkVars, guardVars, obsVars, poolVars, poolHarnessVars, fwdVars>>

\* line 21: interval.tick().await returns; line 23: snapshot
HcTick ==
    /\ hc_pc = "sleep"
    /\ hc_ticks < MaxTicks
    /\ hc_ticks' = hc_ticks + 1
    /\ hc_snap' = snapshot
    /\ hc_idx' = 1
    /\ hc_pc' = IF Deref(snapshot) = <<>> THEN "sleep" ELSE "probe"
    /\ UNCHANGED <<backendVars, tableVars, up, check_interval, last_probe,
                   set_healthy_calls, hcFrame>>

\* lines 24-44: one iteration of `for backend in backends.iter()`
HcProbe ==
    LET b == Deref(hc_snap)[hc_idx]
        is_healthy_now == up[AddrOf(b)]
    IN  /\ hc_pc = "probe"
        /\ healthy' = probe_write(b, is_healthy_now)
        /\ set_healthy_calls' =
              IF healthy' # healthy THEN set_healthy_calls + 1
              ELSE set_healthy_calls
        /\ last_probe' = [last_probe EXCEPT
                            ![b] = IF is_healthy_now THEN "ok" ELSE "fail"]
        /\ hc_idx' = hc_idx + 1
        /\ hc_pc' = IF hc_idx = Len(Deref(hc_snap)) THEN "sleep" ELSE "probe"
        /\ UNCHANGED <<ewma, active_requests, tableVars, up, check_interval,
                       hc_snap, hc_ticks, hcFrame>>

\* hot reloads: the new backend alone, or backend 2 kept next to it
ReloadChoices == {<<NumObjs>>, <<2, NumObjs>>}
HcReload ==
    /\ \E new_backends \in ReloadChoices : update_backends(new_backends)
    /\ UNCHANGED <<reader_snap, reader_seen, backendVars, hcVars, hcFrame>>

(***************************************************************************)
(* SpecHealth: the checker, endpoints going down and up, hot reloads and   *)
(* forwarding tasks calling select_best_backend.                           *)
(***************************************************************************)
InitHealth ==
    /\ BackendNew
    /\ TableNew(StartupBackends)
    /\ SelIdle /\ TrkIdle /\ GuardsIdle /\ ObsIdle /\ PoolNew /\ PoolHarnessIdle /\ FwdIdle
    /\ up \in [Addr -> BOOLEAN]
    /\ check_interval = MainIntervalMs
    /\ hc_pc = "sleep"
    /\ hc_snap = None
    /\ hc_idx = 0
    /\ hc_ticks = 0
    /\ last_probe = [o \in Obj |-> "none"]
    /\ set_healthy_calls = 0

NextHealth ==
    \/ HcTick
    \/ HcProbe
    \/ CallSelect
    \/ \E a \in Addr : EndpointFlip(a)
    \/ HcReload
SpecHealth == InitHealth /\ [][NextHealth]_vars

\* C9: each probe of a tick leaves the probed backend's flag equal to the
\* probe result and touches no other flag; the flag is stored only when it
\* differs from the current value; hence the flag of every probed backend
\* equals its latest probe result, a backend whose latest probe failed is
\* never returned by select_best_backend, and one whose latest probe
\* succeeded competes again whenever it is in the table.
C9_FlagFollowsProbe ==
    /\ [][(hc_pc = "probe" /\ hc_idx' # hc_idx) =>
            LET b == Deref(hc_snap)[hc_idx]
            IN  /\ healthy'[b] = up[AddrOf(b)]
                /\ \A o \in Obj \ {b} : healthy'[o] = healthy[o]
                /\ (set_healthy_calls' # set_healthy_calls)
                      <=> (healthy[b] # up[AddrOf(b)])]_vars
    /\ [][(set_healthy_calls' # set_healthy_calls \/ healthy' # healthy) =>
            /\ hc_pc = "probe"
            /\ healthy' # healthy
            /\ set_healthy_calls' = set_healthy_calls + 1]_vars
    /\ [](\A b \in Obj : last_probe[b] # "none" =>
            (healthy[b] <=> last_probe[b] = "ok"))
    /\ [](hc_pc = "sleep" /\ hc_snap # None =>
            \A i \in DOMAIN Deref(hc_snap) :
               last_probe[Deref(hc_snap)[i]] # "none")
    /\ [][sel_out' # sel_out =>
            /\ sel_out'.result # None => last_probe[sel_out'.result] # "fail"
            /\ \A b \in InTable : last_probe[b] = "ok" =>
                  /\ sel_out'.result # None
                  /\ calculate_score(sel_out'.result) <= calculate_score(b)]_vars

\* backend 1 was found down at the first tick and excluded, came back and
\* after the second tick is healthy again and returned by the selector
C9_Witness ==
    /\ hc_ticks = 2
    /\ hc_pc = "sleep"
    /\ set_healthy_calls = 2
    /\ \A o \in Obj : healthy[o]
    /\ last_probe[1] = "ok"
    /\ sel_out.called
    /\ sel_out.result = 1


\* C23: a Backend is healthy from Backend::new until a probe of it fails:
\* a flag goes to false only in the probe step of that backend, when its
\* endpoint refuses the connection; so a backend of the table that no tick
\* has probed yet passes the selector's filter and competes, whether its
\* endpoint is up or down; and the checker writes only flags of backends of
\* the snapshot it took at its latest tick.
C23_HealthyUntilProbed ==
    /\ [](\A o \in Obj : last_probe[o] = "none" => healthy[o])
    /\ [][\A o \in Obj : (healthy[o] /\ ~healthy'[o]) =>
            /\ hc_pc = "probe"
            /\ o = Deref(hc_snap)[hc_idx]
            /\ ~up[AddrOf(o)]
            /\ last_probe'[o] = "fail"]_vars
    /\ [][sel_out' # sel_out =>
            \A b \in InTable : last_probe[b] = "none" =>
               /\ b \in Range(filter_healthy(Deref(snapshot)))
               /\ sel_out'.result # None
               /\ calculate_score(sel_out'.result) <= calculate_score(b)]_vars
    /\ [][\A o \in Obj : healthy'[o] # healthy[o] =>
            /\ hc_snap # None
            /\ o \in Range(Deref(hc_snap))]_vars
    /\ [][hc_snap' # hc_snap =>
            /\ hc_ticks' = hc_ticks + 1
            /\ hc_snap' = snapshot]_vars

\* after a tick that probed the start-up table, a reload installed a new
\* Backend whose endpoint is down; no tick has probed it yet and the
\* selector returned it
C23_Witness ==
    /\ hc_ticks >= 1
    /\ hc_pc = "sleep"
    /\ Len(installed) > 1
    /\ NumObjs \in InTable
    /\ last_probe[NumObjs] = "none"
    /\ ~up[AddrOf(NumObjs)]
    /\ sel_out.called
    /\ sel_out.result = NumObjs


(***************************************************************************)
(* PeakEwma as a value of its own (ewma.rs): PeakEwma::new(initial, alpha) *)
(* with any decay.  Here the f64 operations round: a result is kept to     *)
(* MantissaBits significant bits, ties to even, and no finer than one      *)
(* unit (the smallest subnormal).  A decay_alpha is a count of 1/AlphaUnit.*)
(***************************************************************************)
RECURSIVE BitLen(_)
BitLen(n) == IF n = 0 THEN 0 ELSE 1 + BitLen(n \div 2)

Abs(x) == IF x < 0 THEN -x ELSE x

\* n >= 0 rounded to a multiple of 2^k, ties to the even multiple
RoundAt(n, k) ==
    IF k <= 0 THEN n
    ELSE LET q == n \div Pow(2, k)
             r == n % Pow(2, k)
             h == Pow(2, k - 1)
         IN  (IF r > h \/ (r = h /\ q % 2 = 1) THEN q + 1 ELSE q) * Pow(2, k)

\* the f64 nearest to n, its last kmin bits being below the unit
f64_round(n, kmin) ==
    LET m == Abs(n)
        r == RoundAt(m, Max2(BitLen(m) - MantissaBits, kmin))
    IN  IF n < 0 THEN -r ELSE r

\* the unit in the last place of the f64 x
Ulp(x) == Pow(2, Max2(BitLen(Abs(x)) - MantissaBits, 0))

\* x * a for a factor a in units of 1/AlphaUnit
f64_mul(x, a) ==
    IF IsNaN(x) THEN NaN ELSE f64_round(x * a, AlphaBits) \div AlphaUnit
\* x + y
f64_add(x, y) ==
    IF IsNaN(x) \/ IsNaN(y) THEN NaN ELSE f64_round(x + y, 0)
\* 1.0 - a
f64_one_minus(a) == f64_round(AlphaUnit - a, 0)
\* x * n for a whole number n (u64 as f64)
f64_times(x, n) == IF IsNaN(x) THEN NaN ELSE f64_round(x * n, 0)

\* lines 55-59 of observe_latency, each operation rounded
next_ewma_plain(current_ewma, rtt_ms, decay_alpha) ==
    f64_add(f64_mul(rtt_ms, f64_one_minus(decay_alpha)),
            f64_mul(current_ewma, decay_alpha))
next_ewma_f64(current_ewma, rtt_ms, decay_alpha) ==
    IF FGt(rtt_ms, current_ewma) THEN rtt_ms
    ELSE f64_add(f64_mul(rtt_ms, f64_one_minus(decay_alpha)),
                 f64_mul(current_ewma, decay_alpha))

\* lines 90-96 of calculate_score for an average e and a gauge n
score_no_offset(e, n) == f64_times(f64_add(e, Ms(1)), n)
score_of(e, n) == f64_times(f64_add(e, Ms(1)), n + 1)
calculate_score_f64(trk) == score_of(trk.ewma, trk.active_requests)

\* arguments of PeakEwma::new and samples (ms); the tests' values and others
TrkInitials == {Ms(10), Ms(50), Ms(100), Ms(173)}
TrkAlphas == {AlphaUnit \div 2, (3 * AlphaUnit) \div 16}
TrkSamples == {0, Ms(50), Ms(173), Ms(500)}
\* samples no elapsed time can be
TrkInvalidSamples == {NaN, -Ms(52)}

\* PeakEwma::new(initial_latency_ms, decay_alpha)
PeakEwmaNew(initial_latency_ms, decay_alpha) ==
    /\ tracker = [ewma |-> initial_latency_ms, decay_alpha |-> decay_alpha,
                  active_requests |-> 0]
    /\ trk_hist = [initial |-> initial_latency_ms,
                   max_observed |-> initial_latency_ms, calls |-> 0,
                   sample |-> 0, prev |-> initial_latency_ms, live |-> 0]

InitEwma ==
    /\ \E e0 \in TrkInitials, a \in TrkAlphas : PeakEwmaNew(e0, a)
    /\ BackendNew
    /\ TableNew(StartupBackends)
    /\ SelIdle /\ GuardsIdle /\ ObsIdle /\ PoolNew /\ PoolHarnessIdle
    /\ FwdIdle /\ HcIdle

trkFrame == <<backendVars, tableVars, selVars, guardVars, obsVars, poolVars,
              poolHarnessVars, fwdVars, hcVars>>

\* tracker.observe_latency(rtt_ms), called by one thread
TrkObserve(rtt_ms) ==
    /\ trk_hist.calls < MaxObs
    /\ tracker' = [tracker EXCEPT
                     !.ewma = next_ewma_f64(@, rtt_ms, tracker.decay_alpha)]
    /\ trk_hist' = [trk_hist EXCEPT
                      !.calls = @ + 1,
                      !.sample = rtt_ms,
                      !.prev = tracker.ewma,
                      !.max_observed = IF FGt(rtt_ms, @) THEN rtt_ms ELSE @]
    /\ UNCHANGED trkFrame

\* let _guard = tracker.increment_active()
TrkIncrement ==
    /\ trk_hist.live < MaxActive
    /\ tracker' = [tracker EXCEPT !.active_requests = fetch_add(@)]
    /\ trk_hist' = [trk_hist EXCEPT !.live = @ + 1]
    /\ UNCHANGED trkFrame

\* a guard of the tracker goes out of scope
TrkDrop ==
    /\ trk_hist.live > 0
    /\ tracker' = [tracker EXCEPT !.active_requests = fetch_sub(@)]
    /\ trk_hist' = [trk_hist EXCEPT !.live = @ - 1]
    /\ UNCHANGED trkFrame

TrkObserveValid == \E rtt_ms \in TrkSamples : TrkObserve(rtt_ms)
TrkObserveInvalid == \E rtt_ms \in TrkInvalidSamples : TrkObserve(rtt_ms)

(***************************************************************************)
(* SpecEwma: one tracker fed elapsed times (non-negative numbers).         *)
(* SpecEwmaAny: the caller may also pass a negative sample or NaN.         *)
(***************************************************************************)
NextEwma ==
    \/ TrkObserveValid
    \/ TrkIncrement
    \/ TrkDrop
SpecEwma == InitEwma /\ [][NextEwma]_vars

NextEwmaAny ==
    \/ TrkObserveValid
    \/ TrkObserveInvalid
    \/ TrkIncrement
    \/ TrkDrop
SpecEwmaAny == InitEwma /\ [][NextEwmaAny]_vars

\* the real number s*(1-alpha) + e*alpha, in units of 1/AlphaUnit
ExactDecay(e, s, a) == s * (AlphaUnit - a) + e * a

\* C13: observe_latency(s) on average e sets the average to s exactly when
\* s > e, and otherwise to s*(1-alpha) + e*alpha as f64 computes it, which is
\* within two units in the last place of e of the real value; it changes
\* neither alpha nor the gauge; tracker(50, 0.5).observe(500) gives 500,
\* tracker(100, 0.5).observe(50) gives 75 and once more 62.5.
C13_PeakOrDecay ==
    [][trk_hist'.calls = trk_hist.calls + 1 =>
        LET e == tracker.ewma
            s == trk_hist'.sample
            a == tracker.decay_alpha
            n == tracker'.ewma
        IN  /\ s > e => n = s
            /\ s <= e =>
                 /\ n = f64_add(f64_mul(s, f64_one_minus(a)), f64_mul(e, a))
                 /\ Abs(n * AlphaUnit - ExactDecay(e, s, a))
                       <= 2 * Ulp(e) * AlphaUnit
            /\ tracker'.decay_alpha = a
            /\ tracker'.active_requests = tracker.active_requests
            /\ (e = Ms(50) /\ s = Ms(500)) => n = Ms(500)
            /\ (a * 2 = AlphaUnit /\ e = Ms(100) /\ s = Ms(50)) => n = Ms(75)
            /\ (a * 2 = AlphaUnit /\ e = Ms(75) /\ s = Ms(50))
                  => n * 2 = Ms(125)]_vars

\* tracker(100, 0.5) after observe(50) twice: 62.5
C13_Witness ==
    /\ trk_hist.initial = Ms(100)
    /\ tracker.decay_alpha * 2 = AlphaUnit
    /\ trk_hist.calls = 2
    /\ trk_hist.sample = Ms(50)
    /\ trk_hist.prev = Ms(75)
    /\ tracker.ewma * 2 = Ms(125)

\* C14: after each observe_latency call with a non-negative sample the
\* average is strictly positive and does not exceed the largest of the
\* initial average and the samples observed so far.
C14_AverageWithinBounds ==
    trk_hist.calls > 0 =>
        /\ tracker.ewma > 0
        /\ tracker.ewma <= trk_hist.max_observed

\* C15: a negative sample has the effect of observing 0 and a NaN sample
\* leaves the average unchanged, so the average is never NaN and stays
\* strictly positive whatever the samples.
C15_InvalidSamplesHarmless ==
    /\ ~IsNaN(tracker.ewma)
    /\ tracker.ewma > 0
    /\ (trk_hist.calls > 0 /\ IsNaN(trk_hist.sample))
          => tracker.ewma = trk_hist.prev
    /\ (trk_hist.calls > 0 /\ ~IsNaN(trk_hist.sample) /\ trk_hist.sample < 0)
          => tracker.ewma = next_ewma_f64(trk_hist.prev, 0, tracker.decay_alpha)

\* the real number (e + 1) * (n + 1), in the model's units
ExactScore(e, n) == (e + Ms(1)) * (n + 1)

\* C16: calculate_score is (ewma + 1) * (active_requests + 1) as f64 computes
\* it (within two units in the last place of the real value), for the
\* current average and the number of guards alive; it is greater than zero,
\* it does not decrease across a step that lowers neither the average nor
\* the gauge, nor between any two averages and gauges the tracker may have;
\* tracker(10, 0.5) scores 22 with one guard alive and 11 with none.
C16_ScoreFormula ==
    /\ [](/\ tracker.active_requests = trk_hist.live
          /\ Abs(calculate_score_f64(tracker)
                   - ExactScore(tracker.ewma, trk_hist.live))
                <= 2 * Ulp(ExactScore(tracker.ewma, trk_hist.live))
          /\ calculate_score_f64(tracker) > 0
          /\ (tracker.ewma = Ms(10) /\ trk_hist.live = 1)
                => calculate_score_f64(tracker) = Ms(22)
          /\ (tracker.ewma = Ms(10) /\ trk_hist.live = 0)
                => calculate_score_f64(tracker) = Ms(11)
          /\ \A e \in {trk_hist.initial, trk_hist.prev} \cup TrkSamples :
                \A n \in 0..MaxActive :
                   (e >= tracker.ewma /\ n >= tracker.active_requests)
                   => score_of(e, n) >= calculate_score_f64(tracker))
    /\ [][(/\ tracker'.ewma >= tracker.ewma
           /\ tracker'.active_requests >= tracker.active_requests)
          => calculate_score_f64(tracker') >= calculate_score_f64(tracker)]_vars

\* tracker(10, 0.5) holding one guard, score 22, after it scored 11
C16_Witness ==
    /\ trk_hist.initial = Ms(10)
    /\ tracker.ewma = Ms(10)
    /\ tracker.decay_alpha * 2 = AlphaUnit
    /\ trk_hist.live = 1
    /\ tracker.active_requests = 1
    /\ calculate_score_f64(tracker) = Ms(22)
    /\ score_of(tracker.ewma, 0) = Ms(11)

(***************************************************************************)
(* SpecSelNaN: as SpecSel, with backends whose average may be NaN (the     *)
(* state observe_latency(NaN) leaves behind).                              *)
(***************************************************************************)
InitSelNaN ==
    /\ \E tbl \in TableChoices : TableNew(tbl)
    /\ healthy \in {h \in [Obj -> BOOLEAN] :
                      \A o \in Obj \ Range(Deref(snapshot)) : h[o]}
    /\ ewma \in {e \in [Obj -> {Ms(5), NaN, Ms(InitialLatencyMs)}] :
                   \A o \in Obj :
                      e[o] = Ms(InitialLatencyMs) <=> o \notin Range(Deref(snapshot))}
    /\ active_requests \in {g \in [Obj -> 0..MaxActive] :
                              \A o \in Obj \ Range(Deref(snapshot)) : g[o] = 0}
    /\ SelIdle /\ TrkIdle /\ GuardsIdle /\ ObsIdle /\ PoolNew /\ PoolHarnessIdle
    /\ FwdIdle /\ HcIdle

SpecSelNaN == InitSelNaN /\ [][NextSel]_vars

\* C18: when the snapshot has a healthy backend whose score is not NaN,
\* select_best_backend returns a backend whose score is not NaN, of minimal
\* score among those, wherever the NaN-scored backends are in the table.
C18_NaNScoreIsInfinity ==
    (sel_out.called
       /\ \E b \in HealthyInTable : ~IsNaN(calculate_score(b)))
    => /\ sel_out.result # None
       /\ ~IsNaN(calculate_score(sel_out.result))
       /\ \A b \in HealthyInTable :
             ~IsNaN(calculate_score(b))
             => calculate_score(sel_out.result) <= calculate_score(b)

(***************************************************************************)
(* SpecSpawn: spawn_health_checker called with any interval_ms, then the   *)
(* checker running against endpoints that go down and up.                  *)
(***************************************************************************)
\* values of interval_ms: u64
IntervalChoices == {1000, ProbeTimeoutMs, MainIntervalMs}

\* lines 11-18: the interval is built from interval_ms as it is; the first
\* tick completes at once
HcSpawn(interval_ms) ==
    /\ hc_pc = "off"
    /\ check_interval' = interval_ms
    /\ hc_pc' = "sleep"
    /\ UNCHANGED <<backendVars, tableVars, up, hc_snap, hc_idx, hc_ticks,
                   last_probe, set_healthy_calls, hcFrame>>

InitSpawn ==
    /\ BackendNew
    /\ TableNew(StartupBackends)
    /\ SelIdle /\ TrkIdle /\ GuardsIdle /\ ObsIdle /\ PoolNew /\ PoolHarnessIdle
    /\ FwdIdle
    /\ up \in [Addr -> BOOLEAN]
    /\ check_interval = 0
    /\ hc_pc = "off"
    /\ hc_snap = None
    /\ hc_idx = 0
    /\ hc_ticks = 0
    /\ last_probe = [o \in Obj |-> "none"]
    /\ set_healthy_calls = 0

NextSpawn ==
    \/ \E interval_ms \in IntervalChoices : HcSpawn(interval_ms)
    \/ HcTick
    \/ HcProbe
    \/ \E a \in Addr : EndpointFlip(a)
SpecSpawn == InitSpawn /\ [][NextSpawn]_vars

\* C19: the period of every checker that was spawned is strictly greater
\* than the connect timeout of its probes.
C19_IntervalAboveTimeout ==
    hc_pc # "off" => check_interval > ProbeTimeoutMs

(***************************************************************************)
(* SpecReload: the forwarding tasks of SpecFwd while update_backends       *)
(* replaces the routing table at any moment (a hot reload).  A new table   *)
(* may hold new Backend objects, whose address may be one an old backend   *)
(* had, and may keep Arcs of the old table.                                *)
(***************************************************************************)
\* the connections that send requests while the table is reloaded
ReloadTasks == 1..NumReloadTasks

\* a hot reload: backend 1 is replaced by a new Backend, listed first, and
\* the Arc of backend 2 is kept
FwdReloadChoices == {<<NumObjs, 2>>}
FwdReload ==
    /\ \E new_backends \in FwdReloadChoices : update_backends(new_backends)
    /\ UNCHANGED <<reader_snap, reader_seen, rtFrame>>

\* the start-up backends are all healthy, or the checker has found them
\* all down
InitReload ==
    /\ healthy \in {[o \in Obj |-> TRUE],
                    [o \in Obj |-> o \notin Range(StartupBackends)]}
    /\ ewma = [o \in Obj |-> Ms(InitialLatencyMs)]
    /\ active_requests = [o \in Obj |-> 0]
    /\ TableNew(StartupBackends)
    /\ SelIdle /\ TrkIdle /\ GuardsIdle /\ ObsIdle /\ PoolNew /\ PoolHarnessIdle
    /\ FwdIdle /\ HcIdle

NextReload ==
    \/ \E t \in ReloadTasks : FwdStep(t)
    \/ \E s \in SenderId : SenderClose(s)
    \/ FwdReload
SpecReload == InitReload /\ [][NextReload]_vars

\* C21: every sender queued in the pool under address A is a connection
\* that was opened to A; the sender a task owns was opened to the address
\* of the backend the task selected, so a sender taken by try_pop(A) is
\* connected to A, whatever requests and table replacements came before.
C21_QueuedUnderOwnAddress ==
    /\ \A a \in DOMAIN idle_connections :
          \A i \in DOMAIN idle_connections[a] :
             sender_addr[idle_connections[a][i]] = a
    /\ \A t \in Tasks :
          sender[t] # None => sender_addr[sender[t]] = AddrOf(ewma_node[t])

\* after a reload a task selected a backend that was not in the start-up
\* table and took from the pool a sender that a request on a start-up
\* backend of the same address had opened
C21_Witness ==
    \E t \in Tasks :
        /\ Len(installed) > 1
        /\ ewma_node[t] \notin Range(StartupBackends)
        /\ from_pool[t]
        /\ sender[t] # None
        /\ sender_addr[sender[t]] = AddrOf(ewma_node[t])
        /\ pc[t] = "send"

\* the backends of the Vec the current request of task t selected from
SelectedFrom(t) ==
    IF req_log[t].table = None THEN {} ELSE Range(Deref(req_log[t].table))
\* task t is inside forward_request after its selection
InFlight(t) == ewma_node[t] # None

\* C22 (as claimed): a step of a request that selected from a table since
\* replaced changes no gauge and no average of a backend of the current
\* table.
C22_NewTableUntouched ==
    [][\A t \in Tasks :
          (InFlight(t) /\ pc'[t] # pc[t] /\ req_log[t].table # backends)
             => \A o \in Range(Deref(backends)) :
                   /\ ewma'[o] = ewma[o]
                   /\ active_requests'[o] = active_requests[o]]_vars

\* C22 (amended): update_backends changes no Backend and no local of a
\* request in flight; a request keeps the Backend object it selected, which
\* is one of the Vec it loaded, and its guard counts on that object; an
\* average changes only by the observe_latency of a request that selected
\* that object and a gauge only by the guard of such a request; every gauge
\* equals the number of guards alive on it, so the gauge of a replaced
\* backend is back at zero when its requests have ended; and a request that
\* selected from a replaced table changes no gauge and no average of the
\* backends of the current table other than those the replaced table held
\* too (a Backend object kept across the replacement).
C22_InFlightKeepsItsBackend ==
    /\ [](\A b \in Obj : active_requests[b] = GuardsOn(b))
    /\ [](\A t \in Tasks : InFlight(t) =>
            /\ ewma_node[t] \in SelectedFrom(t)
            /\ active_guard[t] \in {None, ewma_node[t]})
    /\ [][backends' # backends =>
            /\ UNCHANGED backendVars
            /\ UNCHANGED <<ewma_node, active_guard, req_log>>]_vars
    /\ [][\A t \in Tasks : (InFlight(t) /\ InFlight(t)') =>
            /\ ewma_node'[t] = ewma_node[t]
            /\ req_log'[t].table = req_log[t].table]_vars
    /\ [][\A o \in Obj : ewma'[o] # ewma[o] =>
            \E t \in Tasks :
               /\ ewma_node[t] = o
               /\ req_log'[t].observed = req_log[t].observed + 1]_vars
    /\ [][\A o \in Obj : active_requests'[o] # active_requests[o] =>
            \E t \in Tasks :
               /\ ewma_node[t] = o
               /\ active_guard'[t] # active_guard[t]]_vars
    /\ [][\A t \in Tasks :
            (InFlight(t) /\ pc'[t] # pc[t] /\ req_log[t].table # backends)
               => \A o \in Range(Deref(backends)) \ SelectedFrom(t) :
                     /\ ewma'[o] = ewma[o]
                     /\ active_requests'[o] = active_requests[o]]_vars

\* the table was replaced while a request on backend 1 was in flight: the
\* request has recorded its sample on backend 1, which is no longer in the
\* table, still holds its guard there, and the backends of the new table
\* are as they were
C22_Witness ==
    \E t \in Tasks :
        /\ pc[t] = "return"
        /\ ewma_node[t] = 1
        /\ req_log[t].table # backends
        /\ 1 \notin Range(Deref(backends))
        /\ ewma[1] = Ms(80)
        /\ active_requests[1] = 1
        /\ \A o \in Range(Deref(backends)) :
              ewma[o] = Ms(InitialLatencyMs) /\ active_requests[o] = 0
=============================================================================
